---- MODULE Spec2Model ----
(***************************************************************************)
(* A model of the map-poster API (apps/api/app).                           *)
(*                                                                         *)
(* The job pipeline (job_queue.py).  add_job, get_job_status,              *)
(* cleanup_expired_jobs, process_jobs and start_job_processor run on the   *)
(* event-loop thread: a synchronous call there is never interleaved with   *)
(* another event-loop step.  _render_poster_sync runs on a thread of the   *)
(* ThreadPoolExecutor and interleaves with the event-loop thread between   *)
(* any two of its accesses to job_status.  Each action holds at most one   *)
(* access to a location the other thread writes.  (Spec, SpecPool)         *)
(*                                                                         *)
(* The file cache and the map-data adapters that read through it           *)
(* (poster_service.py 57-112, 228-294).  (SpecCache)                       *)
(*                                                                         *)
(* The computations of the renderer: crop box, road styling, place-name    *)
(* text and size, coordinate caption (poster_service.py 302-370, 422-462,  *)
(* 502-655), in exact arithmetic.  (SpecRender)                            *)
(*                                                                         *)
(* The submission endpoint with its validation (routes/generate.py).       *)
(* (SpecApi)                                                               *)
(***************************************************************************)
EXTENDS Integers, Sequences, FiniteSets, TLC

\* ------------------------------------------------------------------ bounds

\* Jobs submitted in a run of Spec (uuid4 ids: fresh on every call).
MaxJobs == 2
\* Jobs submitted in a run of SpecLive, the job engine under fair scheduling.
MaxLiveJobs == 1
\* Jobs submitted in a run of SpecPool, which holds no status polls.
MaxPoolJobs == 3
\* The clock stops advancing past this instant (seconds).
MaxTime == 3601
\* A cap on the calls of _render_poster_sync counted per job.
MaxRenders == 2
\* Import tasks created in a run of SpecOsm.
MaxImports == 2
\* Calls on the cache and the map-data adapters in a run of SpecCache.
MaxCacheOps == 3
\* Edges of a street graph in a run of SpecRender.
MaxEdges == 2
\* Characters of a place name of mixed scripts in a run of SpecRender.
MaxNameLen == 6

\* --------------------------------------------------------------- constants

JOB_TTL_SECONDS == 1800
max_workers == 2

JobIds == 1..(IF MaxJobs > MaxPoolJobs THEN MaxJobs ELSE MaxPoolJobs)

\* Optional values: Python's None and a present value.
None == <<>>
Some(x) == <<x>>

\* The request parameters a job carries (the fields the output path uses).
Cities == {"Paris"}
Themes == {"noir"}
Params == [city : Cities, theme : Themes]

\* city.lower().replace(" ", "_")
city_slug(city) ==
    CASE city = "Paris" -> "paris"
      [] city = "New York" -> "new_york"
      [] OTHER -> city

\* The generated file name: place, theme id, generation time (second resolution).
filename(p, t) == <<city_slug(p.city), p.theme, t>>

\* str(POSTERS_DIR / filename), as its path components.
output_path_of(p, t) == <<"posters", filename(p, t)>>

\* output_path.split('/')[-1]
last_component(path) == path[Len(path)]

\* f"/api/posters/{output_path.split('/')[-1]}", as its path components.
poster_url(path) == <<"api", "posters", last_component(path)>>

\* str(e) of the exceptions the pipeline raises.
GraphError == "Failed to retrieve street network data."
\* Any other exception of the pipeline; str(e) may be the empty string.
RenderErrors == {""}
KeyErrorText == "KeyError"

VARIABLES
    job_status,         \* job id -> record (the dict job_status)
    job_queue,          \* the asyncio.Queue, a sequence of {job_id, params}
    next_id,            \* ids handed out so far
    now,                \* time.time()
    processor_started,  \* _processor_started
    processor,          \* the process_jobs task: its position and awaited job
    work_queue,         \* the executor's queue of submitted calls
    running,            \* job id -> position of its _render_poster_sync call
    futures,            \* job id -> state of the future of its submitted call
    renders,            \* job id -> calls of _render_poster_sync so far
    poll,               \* the get_job_status call in progress
    ret,                \* what the get_job_status call of the last step returned
    last_submitted,     \* the id add_job returned in the event loop's last step
    graph_absent,       \* jobs whose fetch_graph returned None
    features_fetched,   \* jobs for which fetch_features was called
    posters,            \* job id -> the path its render wrote
    marked,             \* jobs whose record line 108 has set to processing
    response,           \* the HTTP response of the last POST /api/generate
    cache_files,        \* the cache directory: file path -> pickled content
    cache_written,      \* key -> the value the last completed cache_set(key, _) wrote
    cache_ops,          \* calls made on the cache and the adapters so far
    cache_call,         \* the last call on the cache or an adapter, and its outcome
    render_call,        \* the last renderer computation: its inputs and results
    osm_data_sources,   \* the table osm_data_sources: code -> row
    imports,            \* import number -> position of its run_import thread
    admin_call          \* the start_import request in progress or just answered

vars == <<job_status, job_queue, next_id, now, processor_started, processor,
          work_queue, running, futures, renders, poll, ret, last_submitted,
          graph_absent, features_fetched, posters, marked, response,
          cache_files, cache_written, cache_ops, cache_call, render_call,
          osm_data_sources, imports, admin_call>>

\* The OSM import.
osm_vars == <<osm_data_sources, imports, admin_call>>

\* The cache, the renderer's computations and the OSM import, which no step
\* of the job engine touches.
side_vars == <<cache_files, cache_written, cache_ops, cache_call, render_call,
               osm_vars>>

evloop_vars == <<job_queue, next_id, processor_started, processor, work_queue>>
pipeline_vars == <<graph_absent, features_fetched, posters>>

Terminal == {"completed", "failed"}

\* The call's locals.  `immediate`, `old` and `live` record how the call
\* began: right after the add_job that returned its id, with
\* age > JOB_TTL_SECONDS, and on a record whose status was not terminal.
IdlePoll == [pc |-> "idle", job_id |-> 0, immediate |-> FALSE, old |-> FALSE,
             live |-> FALSE, status |-> "", progress |-> 0, url |-> None]

\* No get_job_status call returned in this step.
NoCall == [kind |-> "nocall", job_id |-> 0, immediate |-> FALSE, old |-> FALSE,
           live |-> FALSE, status |-> "", progress |-> 0, url |-> None,
           error |-> None]

\* A step that is no return of get_job_status.
NoReturn == ret' = NoCall

Remove(f, S) == [k \in DOMAIN f \ S |-> f[k]]

HasRecord(j) == j \in DOMAIN job_status

Age(j) == now - job_status[j].created_at

\* No request answered yet; no call made yet.
NoResponse == [status_code |-> 0, job_id |-> 0]
NoCacheCall == [op |-> "nocall"]
NoRenderCall == [stage |-> "nocall"]

\* osm_import.py 12
ACTIVE_STATUSES == {"downloading", "converting", "importing"}

\* admin.py 43: the codes start_import lets through; each has its row.
SourceCodes == {"cz", "sk"}

\* A row no import has touched: a status outside ACTIVE_STATUSES.
NotImported == [status |-> "pending", progress |-> 0]

\* No start_import request is in progress and none was answered.
NoAdminCall == [pc |-> "idle", source_code |-> "", status_code |-> 0]

Init ==
    /\ job_status = <<>>
    /\ job_queue = <<>>
    /\ next_id = 0
    /\ now = 0
    /\ processor_started = FALSE
    /\ processor = [state |-> "notstarted", job_id |-> 0]
    /\ work_queue = <<>>
    /\ running = <<>>
    /\ futures = <<>>
    /\ renders = [j \in JobIds |-> 0]
    /\ poll = IdlePoll
    /\ ret = NoCall
    /\ last_submitted = 0
    /\ graph_absent = {}
    /\ features_fetched = {}
    /\ posters = <<>>
    /\ marked = {}
    /\ response = NoResponse
    /\ cache_files = <<>>
    /\ cache_written = <<>>
    /\ cache_ops = 0
    /\ cache_call = NoCacheCall
    /\ render_call = NoRenderCall
    /\ osm_data_sources = [code \in SourceCodes |-> NotImported]
    /\ imports = <<>>
    /\ admin_call = NoAdminCall

\* ------------------------------------------------------------------- clock

\* Time passes: the clock moves by 1800 s or 1801 s, so that ages on both
\* sides of JOB_TTL_SECONDS and of 2 * JOB_TTL_SECONDS occur.
Tick ==
    /\ \E d \in {JOB_TTL_SECONDS, JOB_TTL_SECONDS + 1} :
         /\ now + d <= MaxTime
         /\ now' = now + d
    /\ last_submitted' = 0
    /\ NoReturn
    /\ UNCHANGED <<job_status, evloop_vars, running, futures, renders, poll,
                   pipeline_vars>>
    /\ UNCHANGED <<marked, response, side_vars>>

\* ----------------------------------------------------------------- add_job

NewRecord(p, t) ==
    [status |-> "pending", progress |-> 0, url |-> None, error |-> None,
     created_at |-> t, params |-> p]

\* job_queue.py 36-66.  The queue is unbounded, so `await job_queue.put`
\* never suspends and the call is one step of the event loop.  `limit` bounds
\* the submissions of a run.
add_job(p, limit) ==
    /\ poll.pc = "idle"
    /\ next_id < limit
    /\ LET job_id == next_id + 1 IN
         /\ next_id' = job_id
         /\ job_status' = job_status @@ (job_id :> NewRecord(p, now))
         /\ job_queue' = Append(job_queue, [job_id |-> job_id, params |-> p])
         /\ last_submitted' = job_id
    /\ NoReturn
    /\ UNCHANGED <<now, processor_started, processor, work_queue, running,
                   futures, renders, poll, pipeline_vars>>
    /\ UNCHANGED <<marked, side_vars>>

\* ---------------------------------------------------------- get_job_status

\* The expiry test with its comparison turned round.
IsExpiredReversed(age, status) ==
    age < JOB_TTL_SECONDS /\ status \notin Terminal

\* job_queue.py 88: the expiry test.
IsExpired(age, status) == age > JOB_TTL_SECONDS /\ status \notin Terminal

\* The return value None.
NotFound == [NoCall EXCEPT !.kind = "none"]

\* A lookup that answers for a missing id with a default record view.
get_job_status_missing_default(j) ==
    /\ ret' = [NoCall EXCEPT !.kind = "view", !.job_id = j,
                             !.immediate = (last_submitted = j),
                             !.status = "expired"]
    /\ UNCHANGED <<job_status, poll>>

\* job_queue.py 81-82: the id has no record.
get_job_status_missing(j) ==
    /\ ret' = [NotFound EXCEPT !.immediate = (last_submitted = j)]
    /\ UNCHANGED <<job_status, poll>>

\* job_queue.py 81-88: the membership test, time.time(), and the one read of
\* status["status"] the expiry test makes.
get_job_status_check(j) ==
    /\ poll.pc = "idle"
    /\ IF ~HasRecord(j)
         THEN get_job_status_missing(j)
         ELSE /\ poll' = [IdlePoll EXCEPT
                    !.pc = IF IsExpired(Age(j), job_status[j].status)
                             THEN "l89" ELSE "l92",
                    !.job_id = j,
                    !.immediate = (last_submitted = j),
                    !.old = (Age(j) > JOB_TTL_SECONDS),
                    !.live = (job_status[j].status \notin Terminal)]
              /\ ret' = NoCall
              /\ UNCHANGED job_status
    /\ last_submitted' = 0
    /\ UNCHANGED <<evloop_vars, now, running, futures, renders, pipeline_vars>>
    /\ UNCHANGED <<marked, response, side_vars>>

\* job_queue.py 89: status["status"] = "expired".  `status` is the dict bound
\* at line 84; no event-loop step removes it while the call runs.
get_job_status_expire ==
    /\ poll.pc = "l89"
    /\ job_status' = [job_status EXCEPT ![poll.job_id].status = "expired"]
    /\ poll' = [poll EXCEPT !.pc = "l92"]
    /\ NoReturn
    /\ UNCHANGED <<evloop_vars, now, running, futures, renders, last_submitted,
                   pipeline_vars>>
    /\ UNCHANGED <<marked, response, side_vars>>

\* job_queue.py 92-94: the reads that build the returned dict, one per step.
get_job_status_read ==
    /\ poll.pc \in {"l92", "l93", "l94"}
    /\ LET r == job_status[poll.job_id] IN
         poll' = CASE poll.pc = "l92" ->
                        [poll EXCEPT !.pc = "l93", !.status = r.status]
                   [] poll.pc = "l93" ->
                        [poll EXCEPT !.pc = "l94", !.progress = r.progress]
                   [] poll.pc = "l94" ->
                        [poll EXCEPT !.pc = "l95", !.url = r.url]
    /\ NoReturn
    /\ UNCHANGED <<job_status, evloop_vars, now, running, futures, renders,
                   last_submitted, pipeline_vars>>
    /\ UNCHANGED <<marked, response, side_vars>>

\* job_queue.py 95-96: the last read, and the return.
get_job_status_return ==
    /\ poll.pc = "l95"
    /\ ret' = [kind |-> "view", job_id |-> poll.job_id,
               immediate |-> poll.immediate, old |-> poll.old,
               live |-> poll.live, status |-> poll.status,
               progress |-> poll.progress, url |-> poll.url,
               error |-> job_status[poll.job_id].error]
    /\ poll' = IdlePoll
    /\ UNCHANGED <<job_status, evloop_vars, now, running, futures, renders,
                   last_submitted, pipeline_vars>>
    /\ UNCHANGED <<marked, response, side_vars>>

\* ------------------------------------------------------ the job dispatcher

\* A start that looks at the task instead of the flag: it creates a new
\* consumer once the old one is cancelled.
start_job_processor_restarting ==
    /\ poll.pc = "idle"
    /\ IF processor.state \in {"notstarted", "cancelled"}
         THEN /\ processor_started' = TRUE
              /\ processor' = [state |-> "waiting", job_id |-> 0]
         ELSE UNCHANGED <<processor_started, processor>>
    /\ last_submitted' = 0
    /\ NoReturn
    /\ UNCHANGED <<job_status, job_queue, next_id, now, work_queue, running,
                   futures, renders, poll, pipeline_vars>>
    /\ UNCHANGED <<marked, response, side_vars>>

\* job_queue.py 160-175.  The created task runs to its first
\* `await job_queue.get()`.  A second call starts nothing and returns None.
start_job_processor ==
    /\ poll.pc = "idle"
    /\ IF ~processor_started
         THEN /\ processor_started' = TRUE
              /\ processor' = [state |-> "waiting", job_id |-> 0]
         ELSE UNCHANGED <<processor_started, processor>>
    /\ last_submitted' = 0
    /\ NoReturn
    /\ UNCHANGED <<job_status, job_queue, next_id, now, work_queue, running,
                   futures, renders, poll, pipeline_vars>>
    /\ UNCHANGED <<marked, response, side_vars>>

\* The first position of _render_poster_sync.
StartOfRender(params) ==
    [pc |-> "l108", params |-> params, output_path |-> None, exc |-> ""]

\* A get() that leaves the item in the queue.
DequeuePeek(q) == q

\* job_queue.get(): the queue without the item it returned.
Dequeue(q) == Tail(q)

\* A dispatcher that starts a thread of its own for every job and does not
\* wait for it.
process_jobs_dispatch_unpooled ==
    /\ poll.pc = "idle"
    /\ processor.state = "waiting"
    /\ job_queue # <<>>
    /\ LET job == Head(job_queue) IN
         /\ job_queue' = Dequeue(job_queue)
         /\ running' = [k \in DOMAIN running \cup {job.job_id} |->
                          IF k = job.job_id THEN StartOfRender(job.params)
                                            ELSE running[k]]
         /\ futures' = [k \in DOMAIN futures \cup {job.job_id} |->
                          IF k = job.job_id THEN "running" ELSE futures[k]]
         /\ renders' = [renders EXCEPT ![job.job_id] = @ + 1]
    /\ last_submitted' = 0
    /\ NoReturn
    /\ UNCHANGED <<job_status, next_id, now, processor_started, processor,
                   work_queue, poll, pipeline_vars>>
    /\ UNCHANGED <<marked, response, side_vars>>

\* job_queue.py 142-149: take the oldest item, submit the render call to the
\* executor and await its future.
process_jobs_dispatch ==
    /\ poll.pc = "idle"
    /\ processor.state = "waiting"
    /\ job_queue # <<>>
    /\ LET job == Head(job_queue) IN
         /\ job_queue' = Dequeue(job_queue)
         /\ work_queue' = Append(work_queue, job)
         /\ futures' = [k \in DOMAIN futures \cup {job.job_id} |->
                          IF k = job.job_id THEN "queued" ELSE futures[k]]
         /\ processor' = [state |-> "awaiting", job_id |-> job.job_id]
    /\ last_submitted' = 0
    /\ NoReturn
    /\ UNCHANGED <<job_status, next_id, now, processor_started, running,
                   renders, poll, pipeline_vars>>
    /\ UNCHANGED <<marked, response, side_vars>>

\* job_queue.py 30: a thread of the pool takes the oldest submitted call, when
\* fewer than max_workers calls are running; a call whose future was cancelled
\* before it started is dropped.
executor_start ==
    /\ work_queue # <<>>
    /\ Cardinality(DOMAIN running) < max_workers
    /\ LET job == Head(work_queue) IN
         /\ work_queue' = Tail(work_queue)
         /\ IF futures[job.job_id] = "cancelled"
              THEN UNCHANGED <<running, futures, renders>>
              ELSE /\ renders[job.job_id] < MaxRenders
                   /\ running' = [k \in DOMAIN running \cup {job.job_id} |->
                                    IF k = job.job_id
                                      THEN StartOfRender(job.params)
                                      ELSE running[k]]
                   /\ futures' = [futures EXCEPT ![job.job_id] = "running"]
                   /\ renders' = [renders EXCEPT ![job.job_id] = @ + 1]
    /\ NoReturn
    /\ UNCHANGED <<job_status, job_queue, next_id, now, processor_started,
                   processor, poll, last_submitted, pipeline_vars>>
    /\ UNCHANGED <<marked, response, side_vars>>

\* job_queue.py 149-157: the awaited future is done.  A result is followed by
\* task_done(); an exception is caught by `except Exception` and logged.  Both
\* ways the loop goes back to `await job_queue.get()`.
process_jobs_resume ==
    /\ poll.pc = "idle"
    /\ processor.state = "awaiting"
    /\ futures[processor.job_id] \in {"returned", "raised"}
    /\ processor' = [state |-> "waiting", job_id |-> 0]
    /\ last_submitted' = 0
    /\ NoReturn
    /\ UNCHANGED <<job_status, job_queue, next_id, now, processor_started,
                   work_queue, running, futures, renders, poll, pipeline_vars>>
    /\ UNCHANGED <<marked, response, side_vars>>

\* main.py 59-60 and job_queue.py 153-155: the lifespan exit cancels the task;
\* the loop breaks.  A submitted call that has not started is cancelled with
\* it, a running one goes on.
cancel_processor ==
    /\ poll.pc = "idle"
    /\ processor.state \in {"waiting", "awaiting"}
    /\ futures' = IF /\ processor.state = "awaiting"
                     /\ futures[processor.job_id] = "queued"
                    THEN [futures EXCEPT ![processor.job_id] = "cancelled"]
                    ELSE futures
    /\ processor' = [state |-> "cancelled", job_id |-> 0]
    /\ last_submitted' = 0
    /\ NoReturn
    /\ UNCHANGED <<job_status, job_queue, next_id, now, processor_started,
                   work_queue, running, renders, poll, pipeline_vars>>
    /\ UNCHANGED <<marked, response, side_vars>>

\* ---------------------------------------------------- _render_poster_sync

worker_frame == <<evloop_vars, now, poll, last_submitted, renders>>

\* The call moves on to position pc.
Goto(j, pc) == running' = [running EXCEPT ![j].pc = pc]

\* An exception raised inside the try block: control moves to the handler.
Raise(j, text) == running' = [running EXCEPT ![j].pc = "l127", ![j].exc = text]

\* The call ends: by returning, or by an exception that leaves it.
Finish(j, how) ==
    /\ running' = Remove(running, {j})
    /\ futures' = [futures EXCEPT ![j] = how]

\* job_queue.py 108.  job_status[job_id] raises KeyError when the record is gone.
render_l108(j) ==
    /\ j \in DOMAIN running /\ running[j].pc = "l108"
    /\ IF HasRecord(j)
         THEN /\ job_status' = [job_status EXCEPT ![j].status = "processing"]
              /\ marked' = marked \cup {j}
              /\ Goto(j, "l109")
         ELSE /\ Raise(j, KeyErrorText)
              /\ UNCHANGED <<job_status, marked>>
    /\ NoReturn
    /\ UNCHANGED <<worker_frame, futures, pipeline_vars>>
    /\ UNCHANGED <<response, side_vars>>

\* job_queue.py 109.
render_l109(j) ==
    /\ j \in DOMAIN running /\ running[j].pc = "l109"
    /\ IF HasRecord(j)
         THEN /\ job_status' = [job_status EXCEPT ![j].progress = 10]
              /\ Goto(j, "l111")
         ELSE /\ Raise(j, KeyErrorText)
              /\ UNCHANGED job_status
    /\ NoReturn
    /\ UNCHANGED <<worker_frame, futures, pipeline_vars>>
    /\ UNCHANGED <<marked, response, side_vars>>

\* poster_service.py 499-709, called at job_queue.py 111-118.  The pipeline
\* touches no job record.  fetch_graph yields a graph or None (506-508: None
\* raises RuntimeError before anything else is fetched); then the feature
\* layers are fetched (510-522); any later step may raise; the last step
\* writes the file and returns its path (694-709).
create_poster(j) ==
    /\ j \in DOMAIN running /\ running[j].pc = "l111"
    /\ \/ /\ graph_absent' = graph_absent \cup {j}
          /\ Raise(j, GraphError)
          /\ UNCHANGED <<features_fetched, posters>>
       \/ /\ features_fetched' = features_fetched \cup {j}
          /\ \E text \in RenderErrors : Raise(j, text)
          /\ UNCHANGED <<graph_absent, posters>>
       \/ /\ features_fetched' = features_fetched \cup {j}
          /\ LET path == output_path_of(running[j].params, now) IN
               /\ posters' = [k \in DOMAIN posters \cup {j} |->
                                IF k = j THEN path ELSE posters[k]]
               /\ running' = [running EXCEPT ![j].pc = "l120",
                                             ![j].output_path = Some(path)]
          /\ UNCHANGED graph_absent
    /\ NoReturn
    /\ UNCHANGED <<job_status, worker_frame, futures>>
    /\ UNCHANGED <<marked, response, side_vars>>

\* Line 120 writing through a reference all records share.
render_l120_shared(j) ==
    /\ j \in DOMAIN running /\ running[j].pc = "l120"
    /\ IF HasRecord(j)
         THEN /\ job_status' = [k \in DOMAIN job_status |->
                                  [job_status[k] EXCEPT !.status = "completed"]]
              /\ Goto(j, "l121")
         ELSE /\ Raise(j, KeyErrorText)
              /\ UNCHANGED job_status
    /\ NoReturn
    /\ UNCHANGED <<worker_frame, futures, pipeline_vars>>
    /\ UNCHANGED <<marked, response, side_vars>>

\* job_queue.py 120.
render_l120(j) ==
    /\ j \in DOMAIN running /\ running[j].pc = "l120"
    /\ IF HasRecord(j)
         THEN /\ job_status' = [job_status EXCEPT ![j].status = "completed"]
              /\ Goto(j, "l121")
         ELSE /\ Raise(j, KeyErrorText)
              /\ UNCHANGED job_status
    /\ NoReturn
    /\ UNCHANGED <<worker_frame, futures, pipeline_vars>>
    /\ UNCHANGED <<marked, response, side_vars>>

\* job_queue.py 121.
render_l121(j) ==
    /\ j \in DOMAIN running /\ running[j].pc = "l121"
    /\ IF HasRecord(j)
         THEN /\ job_status' = [job_status EXCEPT ![j].progress = 100]
              /\ Goto(j, "l122")
         ELSE /\ Raise(j, KeyErrorText)
              /\ UNCHANGED job_status
    /\ NoReturn
    /\ UNCHANGED <<worker_frame, futures, pipeline_vars>>
    /\ UNCHANGED <<marked, response, side_vars>>

\* job_queue.py 122-124: the last write of the try block, and the return.
render_l122(j) ==
    /\ j \in DOMAIN running /\ running[j].pc = "l122"
    /\ IF HasRecord(j)
         THEN /\ job_status' = [job_status EXCEPT ![j].url =
                    Some(poster_url(running[j].output_path[1]))]
              /\ Finish(j, "returned")
         ELSE /\ Raise(j, KeyErrorText)
              /\ UNCHANGED <<job_status, futures>>
    /\ NoReturn
    /\ UNCHANGED <<worker_frame, pipeline_vars>>
    /\ UNCHANGED <<marked, response, side_vars>>

\* A handler that records the error text only and leaves the status alone.
render_l127_status_kept(j) ==
    /\ j \in DOMAIN running /\ running[j].pc = "l127"
    /\ IF HasRecord(j)
         THEN /\ Goto(j, "l128")
              /\ UNCHANGED <<job_status, futures>>
         ELSE /\ Finish(j, "raised")
              /\ UNCHANGED job_status
    /\ NoReturn
    /\ UNCHANGED <<worker_frame, pipeline_vars>>
    /\ UNCHANGED <<marked, response, side_vars>>

\* job_queue.py 126-127: the handler's first write.  A KeyError here is raised
\* inside the handler and leaves the function.
render_l127(j) ==
    /\ j \in DOMAIN running /\ running[j].pc = "l127"
    /\ IF HasRecord(j)
         THEN /\ job_status' = [job_status EXCEPT ![j].status = "failed"]
              /\ Goto(j, "l128")
              /\ UNCHANGED futures
         ELSE /\ Finish(j, "raised")
              /\ UNCHANGED job_status
    /\ NoReturn
    /\ UNCHANGED <<worker_frame, pipeline_vars>>
    /\ UNCHANGED <<marked, response, side_vars>>

\* job_queue.py 128-129: error = str(e), and the return.
render_l128(j) ==
    /\ j \in DOMAIN running /\ running[j].pc = "l128"
    /\ IF HasRecord(j)
         THEN /\ job_status' = [job_status EXCEPT ![j].error =
                    Some(running[j].exc)]
              /\ Finish(j, "returned")
         ELSE /\ Finish(j, "raised")
              /\ UNCHANGED job_status
    /\ NoReturn
    /\ UNCHANGED <<worker_frame, pipeline_vars>>
    /\ UNCHANGED <<marked, response, side_vars>>

\* ---------------------------------------------------- cleanup_expired_jobs

\* A sweep that spares the records of finished jobs.
expired_ids_unfinished ==
    {j \in DOMAIN job_status :
       Age(j) > JOB_TTL_SECONDS * 2 /\ job_status[j].status \notin Terminal}

\* job_queue.py 188-191.
expired_ids == {j \in DOMAIN job_status : Age(j) > JOB_TTL_SECONDS * 2}

\* job_queue.py 196-199: the value the call returns.
cleanup_count == Cardinality(expired_ids)

\* job_queue.py 178-199, a synchronous call on the event-loop thread.
cleanup_expired_jobs ==
    /\ poll.pc = "idle"
    /\ job_status' = Remove(job_status, expired_ids)
    /\ NoReturn
    /\ last_submitted' = 0
    /\ UNCHANGED <<evloop_vars, now, running, futures, renders, poll,
                   pipeline_vars>>
    /\ UNCHANGED <<marked, response, side_vars>>

\* ------------------------------------------------------------- the cache

\* os.sep
Sep == "/"

\* Cache keys, as sequences of characters.  Two of them differ only in a path
\* separator.
CacheKeys == {<<"a", "/", "b">>, <<"a", "_", "b">>, <<"a", "b">>}

\* Cached payloads: coordinate pairs, graphs, feature collections.
CacheValues == {"v1", "v2"}

\* poster_service.py 67-68: key.replace(os.sep, "_"), as CACHE_DIR/<safe>.pkl.
cache_path(key) ==
    <<"cache", [i \in 1..Len(key) |-> IF key[i] = Sep THEN "_" ELSE key[i]],
      ".pkl">>

\* pickle.dump(value, f): the bytes written for a value.
Pickle(value) == <<"pickle", value>>

\* A file opened with "wb" whose dump did not finish.
Truncated == <<"pickle">>

\* pickle.load(f) on a complete file.
Unpickle(content) == content[2]

\* How a cache_set call can go: every step succeeds; makedirs or open raises;
\* pickle.dump raises after open has truncated the file.
SetOutcomes == {"ok", "open_failed", "dump_failed"}

\* poster_service.py 84-91: cache_get.  os.path.exists answers False, without
\* raising, for a path that is not there; `unreadable` is an open or read that
\* raises.
CacheGet(files, key, unreadable) ==
    LET path == cache_path(key) IN
      IF path \notin DOMAIN files
        THEN [out |-> "none", value |-> ""]
        ELSE IF unreadable \/ files[path] = Truncated
               THEN [out |-> "CacheError", value |-> ""]
               ELSE [out |-> "value", value |-> Unpickle(files[path])]

\* poster_service.py 105-112: the cache directory after cache_set.
CacheSet(files, key, value, how) ==
    LET path == cache_path(key) IN
      CASE how = "ok" ->
             [q \in DOMAIN files \cup {path} |->
                IF q = path THEN Pickle(value) ELSE files[q]]
        [] how = "dump_failed" ->
             [q \in DOMAIN files \cup {path} |->
                IF q = path THEN Truncated ELSE files[q]]
        [] OTHER -> files

\* The value the last completed cache_set wrote, per key.
Written(written, key, value, how) ==
    IF how = "ok"
      THEN [q \in DOMAIN written \cup {key} |->
              IF q = key THEN value ELSE written[q]]
      ELSE written

job_vars == <<job_status, job_queue, next_id, now, processor_started,
              processor, work_queue, running, futures, renders, poll, ret,
              last_submitted, graph_absent, features_fetched, posters, marked,
              response>>

\* A call of cache_get.
cache_get(key) ==
    /\ cache_ops < MaxCacheOps
    /\ cache_ops' = cache_ops + 1
    /\ \E unreadable \in BOOLEAN :
         LET r == CacheGet(cache_files, key, unreadable) IN
           cache_call' = [op |-> "cache_get", key |-> key, out |-> r.out,
                          value |-> r.value, live |-> "notmade",
                          read_failed |-> (r.out = "CacheError"),
                          write_failed |-> FALSE]
    /\ UNCHANGED <<cache_files, cache_written, render_call, job_vars,
                   osm_vars>>

\* A call of cache_set: it returns None, or raises CacheError.
cache_set(key, value) ==
    /\ cache_ops < MaxCacheOps
    /\ cache_ops' = cache_ops + 1
    /\ \E how \in SetOutcomes :
         /\ cache_files' = CacheSet(cache_files, key, value, how)
         /\ cache_written' = Written(cache_written, key, value, how)
         /\ cache_call' = [op |-> "cache_set", key |-> key,
                           out |-> IF how = "ok" THEN "none" ELSE "CacheError",
                           value |-> value, live |-> "notmade",
                           read_failed |-> FALSE,
                           write_failed |-> (how # "ok")]
    /\ UNCHANGED <<render_call, job_vars,
                   osm_vars>>

\* ------------------------------------------------- the map-data adapters

\* Centre points (lat, lon) and fetch radii, as Python formats them in a key.
Points == {<<"48.8566", "2.3522">>}
Dists == {"3333"}

\* The feature layers create_poster asks for (510-522), and a water layer of
\* a narrower filter: a name and a tag filter, the dict as its (key, value)
\* items in order.
FeatureLayers ==
    {[name |-> "water",
      tags |-> << <<"natural", "water,bay,strait">>,
                  <<"waterway", "riverbank">> >>],
     [name |-> "parks",
      tags |-> << <<"leisure", "park">>, <<"landuse", "grass">> >>],
     [name |-> "water",
      tags |-> << <<"natural", "water">>, <<"waterway", "riverbank">> >>]}

\* tags.keys()
tag_keys(tags) == [i \in 1..Len(tags) |-> tags[i][1]]

\* "_".join(keys)
RECURSIVE Join(_)
Join(keys) ==
    IF Len(keys) = 0 THEN <<>>
    ELSE IF Len(keys) = 1 THEN <<keys[1]>>
    ELSE <<keys[1], "_">> \o Join(Tail(keys))

\* poster_service.py 240: f"graph_{lat}_{lon}_{dist}"
graph_key(point, dist) == <<"graph", "_", point[1], "_", point[2], "_", dist>>

\* poster_service.py 279-280: f"{name}_{lat}_{lon}_{dist}_{tag_str}"
features_key(name, point, dist, tags) ==
    <<name, "_", point[1], "_", point[2], "_", dist, "_">> \o Join(tag_keys(tags))

\* The handler raises again instead of answering None.
LiveFailedRaises == [out |-> "Exception", value |-> ""]

\* poster_service.py 259-260 and 293-294: `except Exception: return None`.
LiveFailed == [out |-> "none", value |-> ""]

\* An adapter that stores the empty answer of a failed live request.
FetchThroughCache_caching_failure(op, key, args) ==
    /\ cache_ops < MaxCacheOps
    /\ cache_ops' = cache_ops + 1
    /\ \E unreadable \in BOOLEAN, live \in {"ok", "failed"},
          data \in CacheValues, how \in SetOutcomes :
         LET r == CacheGet(cache_files, key, unreadable)
             call == [op |-> op, key |-> key, out |-> r.out,
                      value |-> r.value, live |-> "notmade",
                      read_failed |-> (r.out = "CacheError"),
                      write_failed |-> FALSE, args |-> args]
         IN
           IF r.out # "none"
             THEN /\ cache_call' = call
                  /\ UNCHANGED <<cache_files, cache_written>>
             ELSE IF live = "failed"
               THEN /\ cache_call' = [call EXCEPT !.out = LiveFailed.out,
                                                  !.value = LiveFailed.value,
                                                  !.live = "failed"]
                    /\ cache_files' = CacheSet(cache_files, key, "", "ok")
                    /\ UNCHANGED cache_written
               ELSE /\ cache_files' = CacheSet(cache_files, key, data, how)
                    /\ cache_written' = Written(cache_written, key, data, how)
                    /\ cache_call' = [call EXCEPT !.out = "value",
                                                  !.value = data,
                                                  !.live = "ok",
                                                  !.write_failed = (how # "ok")]
    /\ UNCHANGED <<render_call, job_vars,
                   osm_vars>>

\* poster_service.py 241-260 and 281-294, the body the two adapters share:
\* cache_get outside the try block, so its CacheError leaves the adapter; a
\* cached value is returned; otherwise the live request, whose failure is
\* answered by None, and a cache_set whose CacheError is swallowed.
FetchThroughCache(op, key, args) ==
    /\ cache_ops < MaxCacheOps
    /\ cache_ops' = cache_ops + 1
    /\ \E unreadable \in BOOLEAN, live \in {"ok", "failed"},
          data \in CacheValues, how \in SetOutcomes :
         LET r == CacheGet(cache_files, key, unreadable)
             call == [op |-> op, key |-> key, out |-> r.out,
                      value |-> r.value, live |-> "notmade",
                      read_failed |-> (r.out = "CacheError"),
                      write_failed |-> FALSE, args |-> args]
         IN
           IF r.out # "none"
             THEN /\ cache_call' = call
                  /\ UNCHANGED <<cache_files, cache_written>>
             ELSE IF live = "failed"
               THEN /\ cache_call' = [call EXCEPT !.out = LiveFailed.out,
                                                  !.value = LiveFailed.value,
                                                  !.live = "failed"]
                    /\ UNCHANGED <<cache_files, cache_written>>
               ELSE /\ cache_files' = CacheSet(cache_files, key, data, how)
                    /\ cache_written' = Written(cache_written, key, data, how)
                    /\ cache_call' = [call EXCEPT !.out = "value",
                                                  !.value = data,
                                                  !.live = "ok",
                                                  !.write_failed = (how # "ok")]
    /\ UNCHANGED <<render_call, job_vars,
                   osm_vars>>

\* poster_service.py 228-260.
fetch_graph(point, dist) ==
    FetchThroughCache("fetch_graph", graph_key(point, dist), <<point, dist>>)

\* poster_service.py 263-294.
fetch_features(point, dist, tags, name) ==
    FetchThroughCache("fetch_features", features_key(name, point, dist, tags),
                      <<point, dist, tags, name>>)

\* --------------------------------------------------------- the geocoder

\* str.lower() of one character.
lower(c) == CASE c = "A" -> "a" [] c = "ZH" -> "zh" [] OTHER -> c

\* str.lower()
LowerStr(text) == [i \in 1..Len(text) |-> lower(text[i])]

\* (city, country) pairs of a lookup, the names as sequences of characters:
\* a capital letter to be lower-cased, and names with an underscore in them.
PlaceQueries ==
    {<< <<"A">>, <<"a">> >>,
     << <<"A">>, <<"a", "_", "a">> >>,
     << <<"a", "_", "a">>, <<"a">> >>}

\* poster_service.py 199: f"coords_{city.lower()}_{country.lower()}"
coords_key(city, country) ==
    <<"coords", "_">> \o LowerStr(city) \o <<"_">> \o LowerStr(country)

\* bool(value) of a cached payload
Truthy(value) == value # ""

\* How geolocator.geocode can go: a location, None, or an exception.
GeocodeOutcomes == {"found", "nothing", "raised"}

\* A lookup issued before the delay.
LookupEventsUnthrottled == <<"geocode", "sleep">>

\* poster_service.py 205-208: time.sleep(1), then geolocator.geocode.
LookupEvents == <<"sleep", "geocode">>

\* poster_service.py 184-220.  cache_get is outside any try block; a truthy
\* cached value is returned at once; otherwise the delay and the lookup, a
\* ValueError when the lookup raises or finds nothing, and on success a
\* cache_set whose CacheError is swallowed.
get_coordinates(city, country) ==
    /\ cache_ops < MaxCacheOps
    /\ cache_ops' = cache_ops + 1
    /\ \E unreadable \in BOOLEAN, lookup \in GeocodeOutcomes,
          data \in CacheValues, how \in SetOutcomes :
         LET key == coords_key(city, country)
             r == CacheGet(cache_files, key, unreadable)
             call == [op |-> "get_coordinates", key |-> key, out |-> r.out,
                      value |-> r.value, live |-> "notmade",
                      read_failed |-> (r.out = "CacheError"),
                      write_failed |-> FALSE, events |-> <<>>,
                      args |-> <<LowerStr(city), LowerStr(country)>>]
         IN
           IF r.out = "CacheError" \/ (r.out = "value" /\ Truthy(r.value))
             THEN /\ cache_call' = call
                  /\ UNCHANGED <<cache_files, cache_written>>
             ELSE IF lookup # "found"
               THEN /\ cache_call' = [call EXCEPT !.out = "ValueError",
                                                  !.value = "",
                                                  !.live = "failed",
                                                  !.events = LookupEvents]
                    /\ UNCHANGED <<cache_files, cache_written>>
               ELSE /\ cache_files' = CacheSet(cache_files, key, data, how)
                    /\ cache_written' = Written(cache_written, key, data, how)
                    /\ cache_call' = [call EXCEPT !.out = "value",
                                                  !.value = data,
                                                  !.live = "ok",
                                                  !.write_failed = (how # "ok"),
                                                  !.events = LookupEvents]
    /\ UNCHANGED <<render_call, job_vars,
                   osm_vars>>

\* ------------------------------------------------------------ the renderer

\* Python floats, as exact fractions <<numerator, denominator>> with a
\* positive denominator.
RatAdd(a, b) == <<a[1] * b[2] + b[1] * a[2], a[2] * b[2]>>
RatSub(a, b) == <<a[1] * b[2] - b[1] * a[2], a[2] * b[2]>>
RatMul(a, b) == <<a[1] * b[1], a[2] * b[2]>>
RatLeq(a, b) == a[1] * b[2] <= b[1] * a[2]
RatEq(a, b) == a[1] * b[2] = b[1] * a[2]
RatMax(a, b) == IF RatLeq(a, b) THEN b ELSE a
Whole(n) == <<n, 1>>

\* max(height, width) and min(height, width)
Max(a, b) == IF a >= b THEN a ELSE b
Min(a, b) == IF a <= b THEN a ELSE b

\* Canvas sizes <<width, height>> in inches: square, portrait (the default
\* of create_poster, 12 x 16), landscape.
Canvases == {<<12, 12>>, <<12, 16>>, <<16, 12>>}

\* Requested radii in metres: the ends and the default of GenerateRequest.
Distances == {1000, 10000, 50000}

\* The projected centre point (metres in the graph's CRS).
Centers == {<<0, 0>>, <<448251, 5411932>>}

\* poster_service.py 503: distance * (max(height, width) / min(height, width)) / 4
compensated_dist(distance, width, height) ==
    <<distance * Max(height, width), Min(height, width) * 4>>

\* int(x) for x >= 0: truncation.
int(x) == x[1] \div x[2]

\* poster_service.py 448-462: get_crop_limits, given the projected centre.
get_crop_limits(center, width, height, dist) ==
    LET aspect == <<width, height>>
        half_x == IF width > height THEN Whole(dist)
                                    ELSE RatMul(Whole(dist), aspect)
        half_y == IF width > height THEN <<dist * height, width>>
                                    ELSE Whole(dist)
    IN  [x_min |-> RatSub(Whole(center[1]), half_x),
         x_max |-> RatAdd(Whole(center[1]), half_x),
         y_min |-> RatSub(Whole(center[2]), half_y),
         y_max |-> RatAdd(Whole(center[2]), half_y)]

\* poster_service.py 503 and 559: the crop create_poster applies.
create_poster_crop(center, distance, width, height) ==
    /\ render_call = NoRenderCall
    /\ render_call' =
         [stage |-> "crop", center |-> center, distance |-> distance,
          width |-> width, height |-> height,
          limits |-> get_crop_limits(center, width, height,
                         int(compensated_dist(distance, width, height)))]
    /\ UNCHANGED <<cache_files, cache_written, cache_ops, cache_call, job_vars,
                   osm_vars>>

\* Values of an edge's highway tag.
HighwayTags ==
    {"motorway", "motorway_link", "trunk", "trunk_link", "primary",
     "primary_link", "secondary", "secondary_link", "tertiary",
     "tertiary_link", "residential", "living_street", "unclassified",
     "service"}

\* An edge's data: no highway key, a string, or a list of strings.
EdgeData ==
    {[kind |-> "missing", tags |-> <<>>], [kind |-> "list", tags |-> <<>>],
     [kind |-> "list", tags |-> <<"motorway", "residential">>],
     [kind |-> "list", tags |-> <<"service", "motorway">>]}
      \cup {[kind |-> "str", tags |-> <<t>>] : t \in HighwayTags}

\* Graphs, as the sequence of edge data g.edges(data=True) yields.
Graphs == UNION {[1..n -> EdgeData] : n \in 0..MaxEdges}

\* The road colours of a theme.
Theme ==
    [road_motorway |-> "#motorway", road_primary |-> "#primary",
     road_secondary |-> "#secondary", road_tertiary |-> "#tertiary",
     road_residential |-> "#residential", road_default |-> "#default"]

\* poster_service.py 316-319 and 352-355: the tag the classification uses.
highway_of(data) ==
    IF data.kind = "missing" THEN "unclassified"
    ELSE IF data.kind = "list"
      THEN (IF Len(data.tags) > 0 THEN data.tags[1] ELSE "unclassified")
      ELSE data.tags[1]

\* A classification that leaves the link roads out of the primary tier.
edge_color_without_links(highway, theme) ==
    CASE highway \in {"motorway", "motorway_link"} -> theme.road_motorway
      [] highway \in {"trunk", "primary"} -> theme.road_primary
      [] highway \in {"secondary", "secondary_link"} -> theme.road_secondary
      [] highway \in {"tertiary", "tertiary_link"} -> theme.road_tertiary
      [] highway \in {"residential", "living_street", "unclassified"} ->
           theme.road_residential
      [] OTHER -> theme.road_default

\* poster_service.py 321-332.
edge_color(highway, theme) ==
    CASE highway \in {"motorway", "motorway_link"} -> theme.road_motorway
      [] highway \in {"trunk", "trunk_link", "primary", "primary_link"} ->
           theme.road_primary
      [] highway \in {"secondary", "secondary_link"} -> theme.road_secondary
      [] highway \in {"tertiary", "tertiary_link"} -> theme.road_tertiary
      [] highway \in {"residential", "living_street", "unclassified"} ->
           theme.road_residential
      [] OTHER -> theme.road_default

\* poster_service.py 357-366, in tenths: 1.2, 1.0, 0.8, 0.6, 0.4.
edge_width(highway) ==
    CASE highway \in {"motorway", "motorway_link"} -> 12
      [] highway \in {"trunk", "trunk_link", "primary", "primary_link"} -> 10
      [] highway \in {"secondary", "secondary_link"} -> 8
      [] highway \in {"tertiary", "tertiary_link"} -> 6
      [] OTHER -> 4

\* poster_service.py 302-336.
get_edge_colors_by_type(g, theme) ==
    [i \in 1..Len(g) |-> edge_color(highway_of(g[i]), theme)]

\* poster_service.py 339-370.
get_edge_widths_by_type(g) ==
    [i \in 1..Len(g) |-> edge_width(highway_of(g[i]))]

\* poster_service.py 556-557: the road styling create_poster computes.
create_poster_roads(g) ==
    /\ render_call = NoRenderCall
    /\ render_call' =
         [stage |-> "roads", g |-> g,
          edge_colors |-> get_edge_colors_by_type(g, Theme),
          edge_widths |-> get_edge_widths_by_type(g)]
    /\ UNCHANGED <<cache_files, cache_written, cache_ops, cache_call, job_vars,
                   osm_vars>>

\* Characters of a place name: a Latin letter, the Cyrillic letter zhe
\* (U+0436, written "zh"; its capital U+0416 "ZH"), and a character that is
\* no letter.
Chars == {"a", "zh", "-"}

\* str.isalpha() of one character.
isalpha(c) == c \in {"a", "A", "zh", "ZH"}

\* ord(c) < 0x250
below_0x250(c) == c \in {"a", "A", "-"}

\* str.upper() of one character.
upper(c) == CASE c = "a" -> "A" [] c = "zh" -> "ZH" [] OTHER -> c

\* Place names of mixed scripts, and Latin names of the lengths at which the
\* font size changes its rule.
MixedNames == UNION {[1..n -> Chars] : n \in 0..MaxNameLen}
LongNames == {[i \in 1..n |-> "a"] : n \in {10, 11, 15, 59, 60, 61, 75}}
Names == MixedNames \cup LongNames

\* The test of line 176 with >= in place of >.
is_latin_script_at_least(text) ==
    LET alpha == {i \in 1..Len(text) : isalpha(text[i])}
        latin == {i \in alpha : below_0x250(text[i])}
    IN  IF Len(text) = 0 THEN TRUE
        ELSE IF Cardinality(alpha) = 0 THEN TRUE
        ELSE Cardinality(latin) * 10 >= 8 * Cardinality(alpha)

\* poster_service.py 149-176: latin_count / total_alpha > 0.8.
is_latin_script(text) ==
    LET alpha == {i \in 1..Len(text) : isalpha(text[i])}
        latin == {i \in alpha : below_0x250(text[i])}
    IN  IF Len(text) = 0 THEN TRUE
        ELSE IF Cardinality(alpha) = 0 THEN TRUE
        ELSE Cardinality(latin) * 10 > 8 * Cardinality(alpha)

\* sep.join(chars)
RECURSIVE JoinWith(_, _)
JoinWith(sep, chars) ==
    IF Len(chars) = 0 THEN <<>>
    ELSE IF Len(chars) = 1 THEN <<chars[1]>>
    ELSE <<chars[1], sep>> \o JoinWith(sep, Tail(chars))

\* poster_service.py 602-605.
spaced_city(city) ==
    IF is_latin_script(city)
      THEN JoinWith("  ", [i \in 1..Len(city) |-> upper(city[i])])
      ELSE city

\* The size computed without its floor.
adjusted_font_size_unfloored(city, width, height) ==
    LET scale_factor == <<Min(height, width), 12>>
        base_adjusted_main == RatMul(Whole(60), scale_factor)
    IN  IF Len(city) > 10
          THEN RatMul(base_adjusted_main, <<10, Len(city)>>)
          ELSE base_adjusted_main

\* poster_service.py 580-581 and 608-615.
adjusted_font_size(city, width, height) ==
    LET scale_factor == <<Min(height, width), 12>>
        base_adjusted_main == RatMul(Whole(60), scale_factor)
        city_char_count == Len(city)
    IN  IF city_char_count > 10
          THEN RatMax(RatMul(base_adjusted_main, <<10, city_char_count>>),
                      RatMul(Whole(10), scale_factor))
          ELSE base_adjusted_main

\* poster_service.py 601-634: the place name create_poster draws.
create_poster_city_text(city, width, height) ==
    /\ render_call = NoRenderCall
    /\ render_call' =
         [stage |-> "city", city |-> city, width |-> width, height |-> height,
          text |-> spaced_city(city),
          size |-> adjusted_font_size(city, width, height)]
    /\ UNCHANGED <<cache_files, cache_written, cache_ops, cache_call, job_vars,
                   osm_vars>>

\* Latitudes and longitudes, in whole degrees.
Latitudes == {-90, -1, 0, 1, 90}
Longitudes == {-180, -1, 0, 1, 180}

\* abs(x)
abs(x) == IF x < 0 THEN -x ELSE x

\* f"{x:.4f}" for a whole number of degrees: sign, digits, fraction.
Format4f(x) ==
    IF x < 0 THEN <<"-", ToString(-x), ".0000">> ELSE <<ToString(x), ".0000">>

\* str.replace(old, new), on a text whose pieces hold `old` only as a whole.
Replace(text, old, new) ==
    [i \in 1..Len(text) |-> IF text[i] = old THEN new ELSE text[i]]

\* poster_service.py 649-655.
coords_text(lat, lon) ==
    LET text == IF lat >= 0
                  THEN Format4f(lat) \o <<"deg", " ", "N", " ", "/", " ">>
                         \o Format4f(lon) \o <<"deg", " ", "E">>
                  ELSE Format4f(abs(lat)) \o <<"deg", " ", "S", " ", "/", " ">>
                         \o Format4f(lon) \o <<"deg", " ", "E">>
    IN  IF lon < 0 THEN Replace(text, "E", "W") ELSE text

\* poster_service.py 648-667: the coordinate caption create_poster draws.
create_poster_coords_text(lat, lon) ==
    /\ render_call = NoRenderCall
    /\ render_call' = [stage |-> "coords", lat |-> lat, lon |-> lon,
                       text |-> coords_text(lat, lon)]
    /\ UNCHANGED <<cache_files, cache_written, cache_ops, cache_call, job_vars,
                   osm_vars>>

\* ------------------------------------------------------------- the themes

\* The keys of a theme record.
ThemeFields ==
    {"name", "description", "bg", "text", "gradient_color", "water", "parks",
     "road_motorway", "road_primary", "road_secondary", "road_tertiary",
     "road_residential", "road_default"}

\* themes.py 25-39: the record load_theme builds itself.
HardCodedTheme ==
    [name |-> "Terracotta", description |-> "Default fallback theme",
     bg |-> "#E8D4C4", text |-> "#3D2817", gradient_color |-> "#E8D4C4",
     water |-> "#A8C5D1", parks |-> "#B8D4A8", road_motorway |-> "#5C3D2E",
     road_primary |-> "#6D4E3F", road_secondary |-> "#7D5E4F",
     road_tertiary |-> "#8D6E5F", road_residential |-> "#9D7E6F",
     road_default |-> "#8D6E5F"]

\* The theme assets noir.json and terracotta.json as they are meant to be:
\* records of every key, with the names and colours the tests read.
NoirAsset ==
    [HardCodedTheme EXCEPT !.name = "Noir", !.description = "noir asset",
                           !.bg = "#000000", !.text = "#FFFFFF"]
TerracottaAsset == [HardCodedTheme EXCEPT !.description = "terracotta asset"]

\* A JSON object that lacks the colour keys.
UnshapedJson == [name |-> "Draft"]

\* The files load_theme can select, by theme id.
ThemeFiles == {"noir", "terracotta"}

\* What a theme file can be: not there; JSON text of a full record or of
\* another object; text json.load rejects; a file open() refuses
\* (PermissionError, IsADirectoryError); bytes that are not UTF-8.
Assets(shaped) ==
    {[kind |-> "absent"], [kind |-> "json", value |-> shaped],
     [kind |-> "json", value |-> UnshapedJson], [kind |-> "bad_json"],
     [kind |-> "unreadable"], [kind |-> "not_utf8"]}

\* States of the themes directory.
ThemeDirs ==
    {[f \in ThemeFiles |-> IF f = "noir" THEN n ELSE t] :
       n \in Assets(NoirAsset), t \in Assets(TerracottaAsset)}

\* Theme ids of a request.
ThemeIds == {"noir", "NOIR", "Noir", "terracotta", "nonexistent_theme"}

\* str.lower() on the theme ids.
id_lower(theme_id) ==
    CASE theme_id = "NOIR" -> "noir"
      [] theme_id = "Noir" -> "noir"
      [] OTHER -> theme_id

\* themes.py 17: theme_file.exists()
exists(dir, id) == id \in ThemeFiles /\ dir[id].kind # "absent"

\* The value field of a call that raised.
NoTheme == [name |-> ""]

\* themes.py 21-22: open(theme_file) and json.load(f).
json_load(asset) ==
    CASE asset.kind = "json" -> [out |-> "value", value |-> asset.value]
      [] asset.kind = "absent" ->
           [out |-> "FileNotFoundError", value |-> NoTheme]
      [] asset.kind = "bad_json" ->
           [out |-> "JSONDecodeError", value |-> NoTheme]
      [] asset.kind = "unreadable" ->
           [out |-> "PermissionError", value |-> NoTheme]
      [] OTHER -> [out |-> "UnicodeDecodeError", value |-> NoTheme]

\* themes.py 15-18: the file load_theme opens.
theme_file(dir, theme_id) ==
    IF exists(dir, id_lower(theme_id)) THEN id_lower(theme_id)
    ELSE "terracotta"

\* themes.py 11-39: the parsed JSON as it is; the hard-coded record on
\* FileNotFoundError and JSONDecodeError; any other exception leaves the
\* function.
load_theme(dir, theme_id) ==
    LET r == json_load(dir[theme_file(dir, theme_id)]) IN
      IF r.out \in {"FileNotFoundError", "JSONDecodeError"}
        THEN [out |-> "value", value |-> HardCodedTheme]
        ELSE r

\* poster_service.py 499: theme = load_theme(theme_id), on a themes directory
\* in one of its states.
create_poster_theme(dir, theme_id) ==
    /\ render_call = NoRenderCall
    /\ render_call' = [stage |-> "theme", dir |-> dir, theme_id |-> theme_id,
                       result |-> load_theme(dir, theme_id)]
    /\ UNCHANGED <<cache_files, cache_written, cache_ops, cache_call, job_vars,
                   osm_vars>>

\* --------------------------------------------------------- the OSM import

\* Codes in the path of a start_import request.
RequestCodes == SourceCodes \cup {"de"}

\* osm_import.py 75-82 and admin.py 49-56: the codes of the rows with an
\* active status; LIMIT 1 returns one of them.
active_codes == {c \in SourceCodes : osm_data_sources[c].status \in ACTIVE_STATUSES}

\* osm_import.py 33-60
update_status(source_code, status, progress) ==
    osm_data_sources' =
      [osm_data_sources EXCEPT ![source_code] =
         [status |-> status, progress |-> progress]]

osm_frame ==
    <<job_vars, cache_files, cache_written, cache_ops, cache_call, render_call>>

\* An answered request.
Answer(source_code, status_code) ==
    admin_call' = [pc |-> "idle", source_code |-> source_code,
                   status_code |-> status_code]

\* admin.py 43-64: an unknown code is answered 400; the first query looks for
\* an active row, and one of another source is answered 409.
start_import_l49(source_code) ==
    /\ admin_call.pc = "idle"
    /\ IF source_code \notin SourceCodes
         THEN Answer(source_code, 400)
         ELSE IF active_codes = {}
           THEN admin_call' = [pc |-> "l66", source_code |-> source_code,
                               status_code |-> 0]
           ELSE \E c \in active_codes :
                  IF c # source_code
                    THEN Answer(source_code, 409)
                    ELSE admin_call' = [pc |-> "l66",
                                        source_code |-> source_code,
                                        status_code |-> 0]
    /\ UNCHANGED <<osm_data_sources, imports, osm_frame>>

\* admin.py 66-91: the second query reads the source's own row; an active
\* status is answered 409, otherwise the import task is created and the
\* request answered 202.  asyncio.to_thread runs run_import in a thread of
\* its own.
start_import_l66 ==
    /\ admin_call.pc = "l66"
    /\ IF osm_data_sources[admin_call.source_code].status \in ACTIVE_STATUSES
         THEN /\ Answer(admin_call.source_code, 409)
              /\ UNCHANGED imports
         ELSE /\ Len(imports) < MaxImports
              /\ imports' = Append(imports,
                                   [source_code |-> admin_call.source_code,
                                    pc |-> "l123"])
              /\ Answer(admin_call.source_code, 202)
    /\ UNCHANGED <<osm_data_sources, osm_frame>>

\* The thread of import t moves on to position pc.
ImportGoto(t, pc) == imports' = [imports EXCEPT ![t].pc = pc]

\* osm_import.py 123-127: the source's row is read, then
\* ensure_no_active_import raises when a row has an active status.
run_import_l123(t) ==
    /\ t \in DOMAIN imports /\ imports[t].pc = "l123"
    /\ ImportGoto(t, "l127")
    /\ UNCHANGED <<osm_data_sources, admin_call, osm_frame>>

\* osm_import.py 127: ensure_no_active_import.
run_import_l127(t) ==
    /\ t \in DOMAIN imports /\ imports[t].pc = "l127"
    /\ IF active_codes # {}
         THEN ImportGoto(t, "raised")
         ELSE ImportGoto(t, "l129")
    /\ UNCHANGED <<osm_data_sources, admin_call, osm_frame>>

\* osm_import.py 129
run_import_l129(t) ==
    /\ t \in DOMAIN imports /\ imports[t].pc = "l129"
    /\ update_status(imports[t].source_code, "downloading", 0)
    /\ ImportGoto(t, "l134")
    /\ UNCHANGED <<admin_call, osm_frame>>

\* osm_import.py 134-135: the download, which can raise, and the status
\* importing after it.
run_import_l134(t) ==
    /\ t \in DOMAIN imports /\ imports[t].pc = "l134"
    /\ \/ /\ update_status(imports[t].source_code, "importing", 50)
          /\ ImportGoto(t, "l136")
       \/ /\ ImportGoto(t, "l140")
          /\ UNCHANGED osm_data_sources
    /\ UNCHANGED <<admin_call, osm_frame>>

\* osm_import.py 136-138: the extension and osm2pgsql, which can raise, and
\* the status completed after them.
run_import_l136(t) ==
    /\ t \in DOMAIN imports /\ imports[t].pc = "l136"
    /\ \/ /\ update_status(imports[t].source_code, "completed", 100)
          /\ ImportGoto(t, "returned")
       \/ /\ ImportGoto(t, "l140")
          /\ UNCHANGED osm_data_sources
    /\ UNCHANGED <<admin_call, osm_frame>>

\* osm_import.py 139-147: the handler stores failed and raises again.
run_import_l140(t) ==
    /\ t \in DOMAIN imports /\ imports[t].pc = "l140"
    /\ update_status(imports[t].source_code, "failed", 0)
    /\ ImportGoto(t, "raised")
    /\ UNCHANGED <<admin_call, osm_frame>>

\* ------------------------------------------------------ POST /api/generate

\* A field the request body does not carry.  A field given as JSON null is
\* None, a field given as a string s is Some(s).
Omitted == <<"field", "omitted">>

\* Request bodies: lat and lon in whole degrees around the ends of their
\* ranges; theme missing, empty or given; distance missing or around the ends
\* of its range, with city and country left out.
NumericBodies ==
    [lat : {-91, -90, 90, 91}, lon : {-181, -180, 180, 181},
     theme : {None, Some(""), Some("noir")},
     distance : {None, Some(999), Some(1000), Some(50000), Some(50001)},
     city : {Omitted}, country : {Omitted}]

\* Request bodies with city and country left out, null or given.
DisplayBodies ==
    [lat : {90}, lon : {180}, theme : {Some("noir")}, distance : {None},
     city : {Omitted, None, Some("Paris")},
     country : {Omitted, None, Some("France")}]

Bodies == NumericBodies \cup DisplayBodies

\* A validation that lets a latitude above 90 through.
GenerateRequest_no_le(body) ==
    /\ body.lat >= -90
    /\ body.lon >= -180 /\ body.lon <= 180
    /\ body.theme # None /\ body.theme[1] # ""
    /\ body.distance # None => (body.distance[1] >= 1000
                                /\ body.distance[1] <= 50000)

\* generate.py 25-37: the constraints of the request model; a body that
\* breaks one is answered 422 before the handler runs.
GenerateRequest(body) ==
    /\ body.lat >= -90 /\ body.lat <= 90
    /\ body.lon >= -180 /\ body.lon <= 180
    /\ body.theme # None /\ body.theme[1] # ""
    /\ body.distance # None => (body.distance[1] >= 1000
                                /\ body.distance[1] <= 50000)

\* generate.py 34-37: an Optional[str] field with a default; the default
\* stands in for a field left out only, a null is accepted as it is.
Field(given, default) == IF given = Omitted THEN default ELSE given

\* generate.py 69-78: the dict handed to add_job.
generate_params(body) ==
    [lat |-> body.lat, lon |-> body.lon, theme |-> body.theme[1],
     distance |-> IF body.distance = None THEN 10000 ELSE body.distance[1],
     city |-> Field(body.city, Some("City")),
     country |-> Field(body.country, Some("Country"))]

\* dict.get(key, default)
get(d, key, default) == IF key \in DOMAIN d THEN d[key] ELSE default

\* job_queue.py 111-118: the display names _render_poster_sync hands to
\* create_poster.
create_poster_args(params) ==
    [city |-> get(params, "city", Some("City")),
     country |-> get(params, "country", Some("Country"))]

\* generate.py 63-83, with the validation FastAPI runs before it.
generate(body, limit) ==
    IF GenerateRequest(body)
      THEN /\ add_job(generate_params(body), limit)
           /\ response' = [status_code |-> 202, job_id |-> next_id + 1]
      ELSE /\ poll.pc = "idle"
           /\ response' = [status_code |-> 422, job_id |-> 0]
           /\ last_submitted' = 0
           /\ NoReturn
           /\ UNCHANGED <<job_status, job_queue, next_id, now,
                          processor_started, processor, work_queue, running,
                          futures, renders, poll, pipeline_vars, marked,
                          side_vars>>

\* -------------------------------------------------------------- the system

Next ==
    \/ Tick
    \/ \E p \in Params : add_job(p, MaxJobs) /\ UNCHANGED response
    \/ \E j \in JobIds : get_job_status_check(j)
    \/ get_job_status_expire
    \/ get_job_status_read
    \/ get_job_status_return
    \/ start_job_processor
    \/ process_jobs_dispatch
    \/ executor_start
    \/ process_jobs_resume
    \/ cancel_processor
    \/ \E j \in JobIds : render_l108(j)
    \/ \E j \in JobIds : render_l109(j)
    \/ \E j \in JobIds : create_poster(j)
    \/ \E j \in JobIds : render_l120(j)
    \/ \E j \in JobIds : render_l121(j)
    \/ \E j \in JobIds : render_l122(j)
    \/ \E j \in JobIds : render_l127(j)
    \/ \E j \in JobIds : render_l128(j)
    \/ cleanup_expired_jobs

Spec == Init /\ [][Next]_vars

\* The steps of one call of _render_poster_sync.
render_poster_sync(j) ==
    \/ render_l108(j)
    \/ render_l109(j)
    \/ create_poster(j)
    \/ render_l120(j)
    \/ render_l121(j)
    \/ render_l122(j)
    \/ render_l127(j)
    \/ render_l128(j)

\* The steps that finish a get_job_status call once it has begun.
get_job_status_rest ==
    \/ get_job_status_expire
    \/ get_job_status_read
    \/ get_job_status_return

\* The job engine while the processor task is never cancelled.
NextLive ==
    \/ Tick
    \/ \E p \in Params : add_job(p, MaxLiveJobs) /\ UNCHANGED response
    \/ \E j \in JobIds : get_job_status_check(j)
    \/ get_job_status_rest
    \/ start_job_processor
    \/ process_jobs_dispatch
    \/ executor_start
    \/ process_jobs_resume
    \/ \E j \in JobIds : render_poster_sync(j)
    \/ cleanup_expired_jobs

\* Scheduling.  get_job_status is synchronous, so a call that has begun runs
\* to its return; the event loop runs its ready callbacks in arrival order, so
\* the processor task is not passed over for ever by request handlers; the
\* pool threads run whatever the event loop does; every render call returns
\* or raises.
FairLive ==
    /\ WF_vars(get_job_status_rest)
    /\ SF_vars(process_jobs_dispatch)
    /\ SF_vars(process_jobs_resume)
    /\ WF_vars(executor_start)
    /\ \A j \in JobIds : WF_vars(render_poster_sync(j))

SpecLive == Init /\ [][NextLive]_vars /\ FairLive

\* The dispatcher and the pool with no client polling: get_job_status writes
\* only a record's status, which no step of process_jobs, of the executor or of
\* _render_poster_sync reads.
NextPool ==
    \/ Tick
    \/ \E p \in Params : add_job(p, MaxPoolJobs) /\ UNCHANGED response
    \/ start_job_processor
    \/ process_jobs_dispatch
    \/ executor_start
    \/ process_jobs_resume
    \/ cancel_processor
    \/ \E j \in JobIds : render_l108(j)
    \/ \E j \in JobIds : render_l109(j)
    \/ \E j \in JobIds : create_poster(j)
    \/ \E j \in JobIds : render_l120(j)
    \/ \E j \in JobIds : render_l121(j)
    \/ \E j \in JobIds : render_l122(j)
    \/ \E j \in JobIds : render_l127(j)
    \/ \E j \in JobIds : render_l128(j)
    \/ cleanup_expired_jobs

SpecPool == Init /\ [][NextPool]_vars

\* The cache and the adapters that read through it.
NextCache ==
    \/ \E key \in CacheKeys : cache_get(key)
    \/ \E key \in CacheKeys, value \in CacheValues : cache_set(key, value)
    \/ \E point \in Points, dist \in Dists : fetch_graph(point, dist)
    \/ \E point \in Points, dist \in Dists, layer \in FeatureLayers :
         fetch_features(point, dist, layer.tags, layer.name)
    \/ \E query \in PlaceQueries : get_coordinates(query[1], query[2])

SpecCache == Init /\ [][NextCache]_vars

\* The computations of create_poster, each on inputs of its own; a run makes
\* one of them.
NextRender ==
    \/ \E center \in Centers, distance \in Distances, canvas \in Canvases :
         create_poster_crop(center, distance, canvas[1], canvas[2])
    \/ \E g \in Graphs : create_poster_roads(g)
    \/ \E city \in Names, canvas \in Canvases :
         create_poster_city_text(city, canvas[1], canvas[2])
    \/ \E lat \in Latitudes, lon \in Longitudes :
         create_poster_coords_text(lat, lon)
    \/ \E dir \in ThemeDirs, theme_id \in ThemeIds :
         create_poster_theme(dir, theme_id)

SpecRender == Init /\ [][NextRender]_vars

\* The OSM import: requests and the import threads they start.
NextOsm ==
    \/ \E source_code \in RequestCodes : start_import_l49(source_code)
    \/ start_import_l66
    \/ \E t \in 1..MaxImports : run_import_l123(t)
    \/ \E t \in 1..MaxImports : run_import_l127(t)
    \/ \E t \in 1..MaxImports : run_import_l129(t)
    \/ \E t \in 1..MaxImports : run_import_l134(t)
    \/ \E t \in 1..MaxImports : run_import_l136(t)
    \/ \E t \in 1..MaxImports : run_import_l140(t)

SpecOsm == Init /\ [][NextOsm]_vars

\* The submission boundary alone.
NextApi == \E body \in Bodies : generate(body, MaxJobs)

SpecApi == Init /\ [][NextApi]_vars

\* ------------------------------------------------------------- the claims

\* C1: a completed or failed job never becomes expired: once a record's stored
\* status is completed or failed, no step stores expired in it and no
\* get_job_status call returns expired for it.
C1_TerminalNeverExpired ==
    [][\A j \in DOMAIN job_status \cap DOMAIN job_status' :
         job_status[j].status \in Terminal =>
           /\ job_status'[j].status # "expired"
           /\ (ret'.kind = "view" /\ ret'.job_id = j) => ret'.status # "expired"
      ]_vars

\* The status changes C2 allows.
AllowedTransitions ==
    {<<"pending", "processing">>, <<"processing", "completed">>,
     <<"processing", "failed">>, <<"pending", "expired">>,
     <<"processing", "expired">>}

\* C2: status transitions are monotonic: every change of a record's stored
\* status is pending->processing, processing->completed, processing->failed,
\* pending->expired or processing->expired; a record never leaves expired,
\* completed or failed.
C2_MonotonicTransitions ==
    [][\A j \in DOMAIN job_status \cap DOMAIN job_status' :
         job_status'[j].status # job_status[j].status =>
           <<job_status[j].status, job_status'[j].status>> \in AllowedTransitions
      ]_vars

\* C3: a get_job_status call on a record whose stored status is not completed
\* or failed returns expired exactly when now - created_at > 1800.
C3_ExpiredExactlyWhenOld ==
    (ret.kind = "view" /\ ret.live) => (ret.status = "expired" <=> ret.old)

\* C4: a get_job_status call made immediately after the add_job that returned
\* its id returns a record view with status pending or processing, never
\* completed, failed or None.
C4_ImmediatePollPending ==
    ret.immediate => (ret.kind = "view" /\ ret.status \in {"pending", "processing"})

\* An immediate poll has returned.
C4_Witness ==
    ret.immediate /\ ret.kind = "view" /\ ret.status = "pending"

\* C5: get_job_status on an id that has no record returns None, never a record
\* view, and creates or changes no record.
C5_UnknownIdNotFound ==
    [][\A j \in JobIds :
         (get_job_status_check(j) /\ ~HasRecord(j)) =>
           (ret'.kind = "none" /\ job_status' = job_status)
      ]_vars

\* A call on an unknown id has returned, other records being present.
C5_Witness ==
    ret.kind = "none" /\ poll.pc = "idle" /\ DOMAIN job_status # {}

\* C6: no exception leaves _render_poster_sync: the future of every render
\* call ends with a result, also when the job's record was swept while the job
\* was queued or in flight.
C6_NoExceptionEscapes ==
    \A j \in DOMAIN futures : futures[j] # "raised"

\* C7: every record view returned with status completed carries progress 100
\* and the url /api/posters/<file name of the rendered artifact>.
C7_CompletedViewComplete ==
    (ret.kind = "view" /\ ret.status = "completed") =>
      /\ ret.progress = 100
      /\ ret.job_id \in DOMAIN posters
      /\ ret.url = Some(<<"api", "posters", posters[ret.job_id][2]>>)

\* C8: when fetch_graph returned None for a job, the job ends with stored
\* status failed, a non-empty error string and a null url; its feature layers
\* are not fetched and no poster file is written.
C8_GraphAbsentFails ==
    \A j \in graph_absent :
      /\ j \notin features_fetched
      /\ j \notin DOMAIN posters
      /\ (j \notin DOMAIN running /\ HasRecord(j)) =>
           /\ job_status[j].status = "failed"
           /\ job_status[j].error # None
           /\ job_status[j].error # Some("")
           /\ job_status[j].url = None

\* C9: no job is rendered more than once: each job id is passed to
\* _render_poster_sync at most once.
C9_RenderedAtMostOnce ==
    \A j \in JobIds : renders[j] <= 1

\* A job has been rendered, and its call has returned.
C9_Witness ==
    \E j \in DOMAIN futures : renders[j] = 1 /\ futures[j] = "returned"

\* C10: at most 2 render pipelines execute at any moment, however many jobs
\* are queued.
C10_PoolBound ==
    Cardinality(DOMAIN running) <= 2

\* A render is executing while two more jobs wait in the queue.
C10_Witness ==
    Cardinality(DOMAIN running) = 1 /\ Len(job_queue) = 2

\* The ids waiting in job_queue.
QueuedIds == {job_queue[i].job_id : i \in 1..Len(job_queue)}

\* C11: jobs are processed in submission order: when add_job returned a before
\* it was called for b (ids are handed out in call order, so a < b), a leaves
\* the queue before b does and a is marked processing before b is.
C11_FifoOrder ==
    \A a, b \in 1..next_id :
      a < b =>
        /\ (b \notin QueuedIds => a \notin QueuedIds)
        /\ (b \in marked => a \in marked)

\* C12: the cache is a key-value map: a cache_get(k) that raises no CacheError
\* returns the value the last completed cache_set(k, v) wrote, and None for a
\* key that no cache_set has written.
C12_CacheIsMap ==
    (cache_call.op = "cache_get" /\ ~cache_call.read_failed) =>
      IF cache_call.key \in DOMAIN cache_written
        THEN cache_call.out = "value"
             /\ cache_call.value = cache_written[cache_call.key]
        ELSE cache_call.out = "none"

\* C13: cache errors are not fatal: a cache_set failure inside fetch_graph or
\* fetch_features is swallowed, and a cache_get failure inside them is treated
\* as a cold miss (the live request is made), so the adapter does not raise.
C13_CacheErrorsNotFatal ==
    cache_call.op \in {"fetch_graph", "fetch_features"} =>
      /\ cache_call.out # "CacheError"
      /\ cache_call.read_failed => cache_call.live # "notmade"
      /\ cache_call.write_failed => cache_call.out = "value"

\* C14: when the live map-data request fails, fetch_graph and fetch_features
\* return None and do not raise.
C14_LiveFailureIsAbsent ==
    (cache_call.op \in {"fetch_graph", "fetch_features"}
       /\ cache_call.live = "failed") => cache_call.out = "none"

\* Each adapter has answered None to a failed live request.
C14_Witness ==
    /\ cache_call.op = "fetch_features"
    /\ cache_call.live = "failed" /\ cache_call.out = "none"
    /\ cache_path(graph_key(<<"48.8566", "2.3522">>, "3333"))
         \in DOMAIN cache_files

\* C15: for every canvas and every requested radius d, the crop box
\* create_poster applies is centred on the projected target point and has
\* half-width >= d and half-height >= d.
C15_CropContainsCircle ==
    render_call.stage = "crop" =>
      LET l == render_call.limits
          c == render_call.center
          d == render_call.distance
      IN  /\ RatEq(RatAdd(l.x_min, l.x_max), Whole(2 * c[1]))
          /\ RatEq(RatAdd(l.y_min, l.y_max), Whole(2 * c[2]))
          /\ RatLeq(Whole(2 * d), RatSub(l.x_max, l.x_min))
          /\ RatLeq(Whole(2 * d), RatSub(l.y_max, l.y_min))

\* The tier table as C16 words it, by tag: colour key and width in tenths.
C16_StatedTier(highway) ==
    CASE highway = "motorway" -> <<"road_motorway", 12>>
      [] highway \in {"trunk", "primary"} -> <<"road_primary", 10>>
      [] highway = "secondary" -> <<"road_secondary", 8>>
      [] highway = "tertiary" -> <<"road_tertiary", 6>>
      [] highway \in {"residential", "living_street", "unclassified"} ->
           <<"road_residential", 4>>
      [] OTHER -> <<"road_default", 4>>

\* The tier table with each link road in the tier of its road.
C16_LinkedTier(highway) ==
    CASE highway \in {"motorway", "motorway_link"} -> <<"road_motorway", 12>>
      [] highway \in {"trunk", "trunk_link", "primary", "primary_link"} ->
           <<"road_primary", 10>>
      [] highway \in {"secondary", "secondary_link"} -> <<"road_secondary", 8>>
      [] highway \in {"tertiary", "tertiary_link"} -> <<"road_tertiary", 6>>
      [] highway \in {"residential", "living_street", "unclassified"} ->
           <<"road_residential", 4>>
      [] OTHER -> <<"road_default", 4>>

\* C16 as stated: the i-th colour and width are those of the stated tier table
\* for the i-th edge's tag.
C16_StatedTable ==
    render_call.stage = "roads" =>
      /\ Len(render_call.edge_colors) = Len(render_call.g)
      /\ Len(render_call.edge_widths) = Len(render_call.g)
      /\ \A i \in 1..Len(render_call.g) :
           LET tier == C16_StatedTier(highway_of(render_call.g[i])) IN
             /\ render_call.edge_colors[i] = Theme[tier[1]]
             /\ render_call.edge_widths[i] = tier[2]

\* C16, amended: road classification is a pure function of each edge's highway
\* tag: the i-th colour and the i-th width depend only on the i-th edge's tag
\* and equal the tier table in which motorway_link, trunk_link, primary_link,
\* secondary_link and tertiary_link belong to the tier of their road; colour
\* and width always come from the same tier.
C16_LinkedTable ==
    render_call.stage = "roads" =>
      /\ Len(render_call.edge_colors) = Len(render_call.g)
      /\ Len(render_call.edge_widths) = Len(render_call.g)
      /\ \A i \in 1..Len(render_call.g) :
           LET tier == C16_LinkedTier(highway_of(render_call.g[i])) IN
             /\ render_call.edge_colors[i] = Theme[tier[1]]
             /\ render_call.edge_widths[i] = tier[2]

\* A graph of two edges, a link road and a multi-valued tag, has been styled.
C16_Witness ==
    /\ render_call.stage = "roads"
    /\ Len(render_call.g) = 2
    /\ render_call.g[1] = [kind |-> "str", tags |-> <<"trunk_link">>]
    /\ render_call.g[2] = [kind |-> "list", tags |-> <<"service", "motorway">>]
    /\ render_call.edge_colors = <<"#primary", "#default">>
    /\ render_call.edge_widths = <<10, 4>>

\* C17: with s = min(height, width) / 12, the place-name font size is 60 * s
\* for a name of at most 10 characters and max(60 * s * 10 / len, 10 * s) for
\* a longer one: a 15-character name gets 10/15 of the base size, and the size
\* is never below 10 * s.
C17_FontSize ==
    render_call.stage = "city" =>
      LET s == <<Min(render_call.height, render_call.width), 12>>
          n == Len(render_call.city)
          size == render_call.size
          base == RatMul(Whole(60), s)
          floor == RatMul(Whole(10), s)
          scaled == RatMul(base, <<10, IF n = 0 THEN 1 ELSE n>>)
      IN  /\ n <= 10 => RatEq(size, base)
          /\ n > 10 => /\ RatLeq(scaled, size) /\ RatLeq(floor, size)
                       /\ RatEq(size, scaled) \/ RatEq(size, floor)
          /\ n = 15 => RatEq(RatMul(size, Whole(15)), RatMul(base, Whole(10)))
          /\ RatLeq(floor, size)

\* A 61-character name has been sized at the floor, on the portrait canvas.
C17_Witness ==
    /\ render_call.stage = "city"
    /\ Len(render_call.city) = 61
    /\ render_call.width = 12 /\ render_call.height = 16
    /\ RatEq(render_call.size, Whole(10))

\* Latin letters among all the characters of a name.
C18_LatinCount(city) ==
    Cardinality({i \in 1..Len(city) : isalpha(city[i]) /\ below_0x250(city[i])})

\* Letters among the characters of a name.
C18_AlphaCount(city) == Cardinality({i \in 1..Len(city) : isalpha(city[i])})

\* The name upper-cased with its characters interleaved by the separator.
C18_Interleaved(city) ==
    JoinWith("  ", [i \in 1..Len(city) |-> upper(city[i])])

\* C18 as stated: the name is drawn upper-cased and interleaved if and only if
\* more than 80% of its characters are Latin letters; otherwise unchanged.
C18_LatinShareOfCharacters ==
    render_call.stage = "city" =>
      render_call.text =
        IF C18_LatinCount(render_call.city) * 10 > 8 * Len(render_call.city)
          THEN C18_Interleaved(render_call.city)
          ELSE render_call.city

\* C18, amended: the name is drawn upper-cased and interleaved if and only if
\* more than 80% of its alphabetic characters are Latin letters (exactly 80% is
\* not enough) or it has no alphabetic character; otherwise it is drawn
\* unchanged.
C18_LatinShareOfLetters ==
    render_call.stage = "city" =>
      render_call.text =
        IF \/ C18_AlphaCount(render_call.city) = 0
           \/ C18_LatinCount(render_call.city) * 10
                > 8 * C18_AlphaCount(render_call.city)
          THEN C18_Interleaved(render_call.city)
          ELSE render_call.city

\* A name of four Latin letters and one Cyrillic letter, exactly 80%, has been
\* drawn unchanged.
C18_Witness ==
    /\ render_call.stage = "city"
    /\ render_call.city = <<"a", "a", "zh", "a", "a">>
    /\ render_call.text = render_call.city

\* C19: the caption shows |lat| followed by N if lat >= 0 else S, and |lon|
\* followed by E if lon >= 0 else W, with no minus sign anywhere.
C19_AbsoluteDegrees ==
    render_call.stage = "coords" =>
      /\ render_call.text =
           Format4f(abs(render_call.lat))
             \o <<"deg", " ", IF render_call.lat >= 0 THEN "N" ELSE "S",
                  " ", "/", " ">>
             \o Format4f(abs(render_call.lon))
             \o <<"deg", " ", IF render_call.lon >= 0 THEN "E" ELSE "W">>
      /\ \A i \in 1..Len(render_call.text) : render_call.text[i] # "-"

\* The bodies C20 names: latitude outside [-90, 90], longitude outside
\* [-180, 180], theme missing or empty, or radius outside [1000, 50000].
C20_Invalid(body) ==
    \/ body.lat < -90 \/ body.lat > 90
    \/ body.lon < -180 \/ body.lon > 180
    \/ body.theme \in {None, Some("")}
    \/ body.distance \in {Some(999), Some(50001)}

C22_PollStep ==
    \/ \E j \in JobIds : get_job_status_check(j)
    \/ get_job_status_expire
    \/ get_job_status_read
    \/ get_job_status_return

\* C22: cleanup_expired_jobs removes exactly the records older than 2 * 1800
\* seconds, whatever their status, returns the number removed and leaves every
\* other record unchanged; no step of get_job_status removes a record.
C22_SweepExact ==
    [][/\ cleanup_expired_jobs =>
            /\ DOMAIN job_status' =
                 {j \in DOMAIN job_status : now - job_status[j].created_at <= 3600}
            /\ \A j \in DOMAIN job_status' : job_status'[j] = job_status[j]
            /\ cleanup_count =
                 Cardinality(DOMAIN job_status) - Cardinality(DOMAIN job_status')
       /\ DOMAIN job_status' = DOMAIN job_status \/ ~C22_PollStep
      ]_vars

\* The record of a completed job has been swept while another record stays.
C22_Witness ==
    \E j \in DOMAIN posters :
      /\ futures[j] = "returned"
      /\ ~HasRecord(j)
      /\ DOMAIN job_status # {}

\* C25: in every record, url is set only if the stored status is completed
\* and error is set only if the stored status is failed.
C25_UrlAndErrorMatchStatus ==
    \A j \in DOMAIN job_status :
      /\ job_status[j].url # None => job_status[j].status = "completed"
      /\ job_status[j].error # None => job_status[j].status = "failed"

\* C26: a record's progress is an integer in 0..100, never decreases, is 0
\* while the stored status is pending, and every view get_job_status returns
\* with status processing carries progress 10.
C26_Progress ==
    [][/\ \A j \in DOMAIN job_status' :
            /\ job_status'[j].progress \in 0..100
            /\ job_status'[j].status = "pending" => job_status'[j].progress = 0
       /\ \A j \in DOMAIN job_status \cap DOMAIN job_status' :
            job_status'[j].progress >= job_status[j].progress
       /\ (ret'.kind = "view" /\ ret'.status = "processing") =>
            ret'.progress = 10
      ]_vars

\* C27: a step changes at most the record of the job a worker is executing or
\* of the id a poll is made for, and in it only status, progress, url and
\* error: params and created_at never change while the record exists.
C27_OwnRecordOnly ==
    [][\A j \in DOMAIN job_status \cap DOMAIN job_status' :
         /\ job_status'[j].params = job_status[j].params
         /\ job_status'[j].created_at = job_status[j].created_at
         /\ job_status'[j] # job_status[j] =>
              /\ j \in DOMAIN running \/ poll.job_id = j
              /\ \A k \in (DOMAIN job_status \cap DOMAIN job_status') \ {j} :
                   job_status'[k] = job_status[k]
      ]_vars

\* A worker has completed one job while the record of another job is pending.
C27_Witness ==
    \E j, k \in DOMAIN job_status :
      /\ j # k
      /\ job_status[j].status = "completed" /\ job_status[j].url # None
      /\ job_status[k].status = "pending"

\* C30: no two successful renders write the same output path.
C30_WriteOnce ==
    \A j, k \in DOMAIN posters : j # k => posters[j] # posters[k]

\* C21: for every accepted submission the worker calls create_poster with
\* string display names, and with city "City" (country "Country") when the
\* field is left out or null.
C21_DisplayNamesAreStrings ==
    [][\A body \in Bodies :
         (GenerateRequest(body) /\ generate(body, MaxJobs)) =>
           LET args == create_poster_args(job_status'[next_id'].params) IN
             /\ args.city # None
             /\ args.country # None
             /\ body.city \in {Omitted, None} => args.city = Some("City")
             /\ body.country \in {Omitted, None} =>
                  args.country = Some("Country")
      ]_vars

\* The operations that read through the cache and make a live request.
C28_Adapters == {"fetch_graph", "fetch_features", "get_coordinates"}

\* C28: when fetch_graph, fetch_features or get_coordinates makes a live
\* request that fails, the cache contents are unchanged and hold nothing for
\* the call's key, and the next call with the same arguments makes a live
\* request again.
C28_FailureNotCached ==
    [][/\ (cache_call'.op \in C28_Adapters /\ cache_call'.live = "failed") =>
            /\ cache_files' = cache_files
            /\ cache_path(cache_call'.key) \notin DOMAIN cache_files'
       /\ (/\ cache_call.op \in C28_Adapters
           /\ cache_call.live = "failed"
           /\ cache_call'.op = cache_call.op
           /\ cache_call'.key = cache_call.key) =>
            cache_call'.live # "notmade"
      ]_vars

\* The last of MaxCacheOps calls is a lookup that has failed next to a filled
\* cache.
C28_Witness ==
    /\ cache_call.op = "get_coordinates"
    /\ cache_call.live = "failed" /\ cache_call.out = "ValueError"
    /\ cache_files # <<>>
    /\ cache_ops = MaxCacheOps

\* C29: get_coordinates returns a cached pair with no delay and no lookup; on
\* a miss it makes exactly one lookup, after the 1-second delay; a found
\* location is returned and written to the cache, also when the write fails.
C29_CacheFirstThrottled ==
    (cache_call.op = "get_coordinates" /\ ~cache_call.read_failed) =>
      IF cache_call.live = "notmade"
        THEN /\ cache_call.out = "value"
             /\ cache_call.value =
                  Unpickle(cache_files[cache_path(cache_call.key)])
             /\ cache_call.events = <<>>
        ELSE /\ cache_call.events = <<"sleep", "geocode">>
             /\ cache_call.live = "ok" =>
                  /\ cache_call.out = "value"
                  /\ ~cache_call.write_failed =>
                       /\ cache_path(cache_call.key) \in DOMAIN cache_files
                       /\ cache_files[cache_path(cache_call.key)] =
                            Pickle(cache_call.value)

\* A lookup has found a place, the cache write has failed and the pair has
\* been returned; the call before it was answered from the cache.
C29_Witness ==
    /\ cache_call.op = "get_coordinates"
    /\ cache_call.live = "ok"
    /\ cache_call.write_failed
    /\ cache_call.out = "value"
    /\ cache_written # <<>>

\* C23: load_theme with an id that has no theme asset returns the default
\* Terracotta record (the default asset's record, or the hard-coded one), and
\* load_theme(id) equals load_theme(lower-cased id).
C23_DefaultAndCaseInsensitive ==
    render_call.stage = "theme" =>
      LET dir == render_call.dir
          id == render_call.theme_id
      IN
        /\ ~exists(dir, id_lower(id)) =>
             /\ render_call.result.out = "value"
             /\ render_call.result.value \in {TerracottaAsset, HardCodedTheme}
        /\ render_call.result = load_theme(dir, id_lower(id))

\* C24: load_theme never raises and returns a record of the fixed field
\* shape; when the file it selects is unreadable or malformed it returns the
\* hard-coded record.
C24_AlwaysShaped ==
    render_call.stage = "theme" =>
      LET asset == render_call.dir[theme_file(render_call.dir,
                                              render_call.theme_id)]
      IN
        /\ render_call.result.out = "value"
        /\ DOMAIN render_call.result.value = ThemeFields
        /\ asset.kind # "json" => render_call.result.value = HardCodedTheme

\* C33: every job id waiting in job_queue or being rendered by a worker has a
\* record in job_status, and cleanup_expired_jobs never removes the record of
\* a job that has not reached completed or failed.
C33_LiveJobsKeepRecords ==
    [][/\ \A j \in QueuedIds' \cup DOMAIN running' : j \in DOMAIN job_status'
       /\ cleanup_expired_jobs =>
            \A j \in DOMAIN job_status \ DOMAIN job_status' :
              job_status[j].status \in Terminal
      ]_vars

\* C32: once the processor task is cancelled the loop has ended for good: no
\* step takes an item out of job_queue, no id waiting in job_queue is marked
\* processing, and start_job_processor starts no second consumer.
C32_CancelledStaysStopped ==
    [][processor.state = "cancelled" =>
         /\ processor' = processor
         /\ processor_started'
         /\ Len(job_queue') >= Len(job_queue)
         /\ SubSeq(job_queue', 1, Len(job_queue)) = job_queue
         /\ \A j \in QueuedIds' : j \notin marked'
      ]_vars

\* The consumer was cancelled after it had rendered one job; another job
\* waits in the queue with its record pending.
C32_Witness ==
    /\ processor.state = "cancelled"
    /\ marked # {}
    /\ \E j \in QueuedIds : HasRecord(j) /\ job_status[j].status = "pending"

C34_OneFilePerIdentity ==
    [][(/\ cache_call.op \in C28_Adapters
        /\ cache_call'.op = cache_call.op
        /\ cache_call'.args # cache_call.args) =>
         cache_path(cache_call'.key) # cache_path(cache_call.key)
      ]_vars

\* C35: at most one OSM data source has an active import status
\* (downloading, converting, importing) at any time.
C35_OneActiveImport ==
    Cardinality(active_codes) <= 1

====
